---- MODULE Spec2Model ----
(***************************************************************************)
(* Traffic-data ETL pipeline (src/src/etl): configuration, extraction,     *)
(* transformation and load of one spreadsheet batch per run, as sequenced  *)
(* by run_etl.  Each run is one invocation of run_etl; runs share the      *)
(* local filesystem, the Blob Store (GCS) and the Warehouse (BigQuery).    *)
(***************************************************************************)
EXTENDS Integers, Sequences, FiniteSets, TLC

(***************************************************************************)
(* Bounds of the model: the clock counts ticks up to MaxClock, with        *)
(* TicksPerSecond ticks to the second.  Two invocations of the pipeline    *)
(* run concurrently.                                                       *)
(***************************************************************************)
MaxClock == 2
TicksPerSecond == 2

Runs == {1, 2}

(***************************************************************************)
(* Exit codes, __main__.py:72-77, and the status the interpreter gives a   *)
(* process whose main() raised (sys.exit(main()) is never reached).        *)
(***************************************************************************)
EXIT_SUCCESS == 0
EXIT_CONFIG_ERROR == 1
EXIT_EXTRACTION_ERROR == 2
EXIT_TRANSFORM_ERROR == 3
EXIT_LOAD_ERROR == 4
EXIT_UNKNOWN_ERROR == 99
PY_UNCAUGHT_EXIT == 1

(***************************************************************************)
(* Generic helpers: optional values, finite maps, sequences.               *)
(***************************************************************************)
None == <<>>
Some(x) == <<x>>

Put(f, k, v) == [x \in (DOMAIN f) \cup {k} |-> IF x = k THEN v ELSE f[x]]
Del(f, k) == [x \in (DOMAIN f) \ {k} |-> f[x]]

Range(s) == {s[i] : i \in DOMAIN s}

(***************************************************************************)
(* str.lower() on the strings the model uses.                              *)
(***************************************************************************)
\* A comparison that keeps the case of the text.
Lower_keep_case(s) == s

Lower(s) ==
    CASE s = "TRUNCATE" -> "truncate"
      [] s = "Append" -> "append"
      [] s = "Time" -> "time"
      [] s = "TIME" -> "time"
      [] s = "Traffic" -> "traffic"
      [] s = "Note" -> "note"
      [] OTHER -> s

(***************************************************************************)
(* Exceptions and call results.  exc = "none" is a normal return.          *)
(***************************************************************************)
Declared == {"ConfigError", "ExtractionError", "TransformationError", "LoadError"}

Ok == [exc |-> "none", detail |-> ""]
Raise(kind, detail) == [exc |-> kind, detail |-> detail]

(***************************************************************************)
(* Tables (pandas DataFrame / decoded spreadsheet).  A cell is a tagged    *)
(* value; hdr tells whether the column labels are strings.                 *)
(***************************************************************************)
Cell(t, v) == [t |-> t, v |-> v]
Table(hdr, cols, rows) == [hdr |-> hdr, cols |-> cols, rows |-> rows]
EmptyTable == Table("str", <<>>, <<>>)

(***************************************************************************)
(* Files.  kind: "xls" | "garbage" | "json" | "csv"; by: the run whose     *)
(* batch the file holds (0 for files no run wrote).                        *)
(***************************************************************************)
File(kind, table, by) == [kind |-> kind, table |-> table, by |-> by]

XLS_NAME == "traffic_spreadsheet.xls"
Dirs == {"data"}
CredFile == <<"keys", "sa.json">>

Parent(path) == path[1]
Join(dir, name) == <<dir, name>>

(***************************************************************************)
(* The spreadsheets a source file may hold.                                *)
(***************************************************************************)
Spreadsheets ==
    { File("xls", Table("str", <<"time", "traffic">>,
                        << <<Cell("dmy", 1), Cell("num", 6)>>,
                           <<Cell("dt", 2), Cell("num", 7)>> >>), 0),
      File("xls", Table("str", <<"Time", "Traffic", "Note">>,
                        << <<Cell("dmy", 1), Cell("num", -1), Cell("text", 0)>> >>), 0),
      File("xls", Table("str", <<"time", "traffic">>,
                        << <<Cell("text", 0), Cell("num", 6)>> >>), 0),
      File("xls", Table("str", <<"time", "traffic">>, <<>>), 0),
      File("xls", Table("num", <<"1", "2">>,
                        << <<Cell("dmy", 1), Cell("num", 6)>> >>), 0),
      File("garbage", EmptyTable, 0) }

(***************************************************************************)
(* Configuration, config.py:68-118.                                        *)
(***************************************************************************)
Config(project, bucket, dataset, tbl, xls, cred, wd) ==
    [gcp_project |-> project, gcs_bucket |-> bucket, bq_dataset |-> dataset,
     bq_table |-> tbl, local_xls_path |-> xls,
     google_credentials_path |-> cred, write_disposition |-> wd]

bq_table_id(config) ==
    config.gcp_project \o "." \o config.bq_dataset \o "." \o config.bq_table

HasAttr(config, name) == name \in (DOMAIN config) \cup {"bq_table_id"}

replace(config, wd) == [config EXCEPT !.write_disposition = wd]

(***************************************************************************)
(* The process environment seen by load_config.  String variables are ""   *)
(* when unset or empty, path variables <<>>; BQ_WRITE_DISPOSITION is       *)
(* optional.  The credentials variable is the one load_config rewrites.    *)
(***************************************************************************)
Cred(abs, path) == [abs |-> abs, path |-> path]

BaseEnv(d, wd) ==
    [GCP_PROJECT |-> "proj", GCS_BUCKET |-> "bucket", BQ_DATASET |-> "ds",
     BQ_TABLE |-> "tbl", LOCAL_XLS_PATH |-> Join(d, XLS_NAME),
     BQ_WRITE_DISPOSITION |-> wd]

Environments ==
    { BaseEnv(d, wd) : d \in Dirs,
                       wd \in {None, Some("truncate"), Some("TRUNCATE"), Some("replace")} }
    \cup { [BaseEnv("data", None) EXCEPT !.GCS_BUCKET = ""],
           [BaseEnv("data", None) EXCEPT !.GCP_PROJECT = "", !.BQ_TABLE = ""],
           [BaseEnv("data", None) EXCEPT !.LOCAL_XLS_PATH = <<>>],
           [BaseEnv("data", None) EXCEPT !.LOCAL_XLS_PATH = Join("data", "gone.xls")] }

Credentials == { Cred(FALSE, CredFile), Cred(FALSE, <<>>) }

required_vars ==
    <<"GCP_PROJECT", "GCS_BUCKET", "BQ_DATASET", "BQ_TABLE", "LOCAL_XLS_PATH",
      "GOOGLE_APPLICATION_CREDENTIALS">>

Unset(env, cred, var) ==
    CASE var = "GOOGLE_APPLICATION_CREDENTIALS" -> cred.path = <<>>
      [] var = "LOCAL_XLS_PATH" -> env[var] = <<>>
      [] OTHER -> env[var] = ""

_get_optional_env(env, default) ==
    IF env.BQ_WRITE_DISPOSITION = None THEN default ELSE env.BQ_WRITE_DISPOSITION[1]

(***************************************************************************)
(* load_config, config.py:177-309.  Returns the outcome, the Config (when  *)
(* one is returned) and the credentials variable as the call leaves it.    *)
(***************************************************************************)
ConfigResult(res, config, cred, missing) ==
    [res |-> res, config |-> config, cred |-> cred, missing |-> missing]

\* A load_config that raises at the first missing variable it meets.
load_config_first_missing(env, cred, files) ==
    LET unset == SelectSeq(required_vars, LAMBDA var : Unset(env, cred, var))
        errors == IF unset = <<>> THEN <<>> ELSE <<Head(unset)>>
        xls_path == env.LOCAL_XLS_PATH
        credentials_path == cred.path
        absolute == Cred(TRUE, credentials_path)
        write_disposition == Lower(_get_optional_env(env, "append"))
    IN  IF errors # <<>>
        THEN ConfigResult(Raise("ConfigError", "missing variables"), None, cred, errors)
        ELSE IF xls_path \notin DOMAIN files
        THEN ConfigResult(Raise("ConfigError", "xls not found"), None, cred, <<>>)
        ELSE IF credentials_path \notin DOMAIN files
        THEN ConfigResult(Raise("ConfigError", "credentials not found"), None, cred, <<>>)
        ELSE IF write_disposition \notin {"append", "truncate"}
        THEN ConfigResult(Raise("ConfigError", "invalid write disposition"), None,
                          absolute, <<>>)
        ELSE ConfigResult(Ok,
                          Some(Config(env.GCP_PROJECT, env.GCS_BUCKET, env.BQ_DATASET,
                                      env.BQ_TABLE, xls_path, credentials_path,
                                      write_disposition)),
                          absolute, <<>>)

load_config(env, cred, files) ==
    LET errors == SelectSeq(required_vars, LAMBDA var : Unset(env, cred, var))
        xls_path == env.LOCAL_XLS_PATH
        credentials_path == cred.path
        absolute == Cred(TRUE, credentials_path)
        write_disposition == Lower(_get_optional_env(env, "append"))
    IN  IF errors # <<>>
        THEN ConfigResult(Raise("ConfigError", "missing variables"), None, cred, errors)
        ELSE IF xls_path \notin DOMAIN files
        THEN ConfigResult(Raise("ConfigError", "xls not found"), None, cred, <<>>)
        ELSE IF credentials_path \notin DOMAIN files
        THEN ConfigResult(Raise("ConfigError", "credentials not found"), None, cred, <<>>)
        ELSE IF write_disposition \notin {"append", "truncate"}
        THEN ConfigResult(Raise("ConfigError", "invalid write disposition"), None,
                          absolute, <<>>)
        ELSE ConfigResult(Ok,
                          Some(Config(env.GCP_PROJECT, env.GCS_BUCKET, env.BQ_DATASET,
                                      env.BQ_TABLE, xls_path, credentials_path,
                                      write_disposition)),
                          absolute, <<>>)

(***************************************************************************)
(* Configuration phase of run_etl, __main__.py:140-149: config =            *)
(* load_config(); with --truncate the name config is rebound to             *)
(* replace(config, write_disposition="truncate").  c is what load_config    *)
(* returned; loaded is the object load_config built, as the phase leaves    *)
(* it (Config is a frozen dataclass, config.py:68, and dataclasses.replace  *)
(* builds a new object); config is what the later phases use.               *)
(***************************************************************************)
\* A configuration phase that edits the loaded object itself.
ConfigPhase_in_place(c, truncate) ==
    LET edited == IF c.res = Ok /\ truncate
                  THEN Some(replace(c.config[1], "truncate"))
                  ELSE c.config
    IN  [loaded |-> edited, config |-> edited]

ConfigPhase(c, truncate) ==
    [loaded |-> c.config,
     config |-> IF c.res = Ok /\ truncate
                THEN Some(replace(c.config[1], "truncate"))
                ELSE c.config]

(***************************************************************************)
(* extract_from_xls, extract.py:276-358.  files is the local filesystem.   *)
(* A spreadsheet whose column labels are not strings makes                 *)
(* df.columns.str raise AttributeError, which no handler converts.         *)
(***************************************************************************)
DfResult(res, df) == [res |-> res, df |-> df]

extract_from_xls(file_path, files) ==
    IF file_path \notin DOMAIN files
    THEN DfResult(Raise("ExtractionError", "XLS file not found"), None)
    ELSE IF files[file_path].kind # "xls"
    THEN DfResult(Raise("ExtractionError", "Failed to read XLS file"), None)
    ELSE LET df == files[file_path].table
             expected_columns == {"time", "traffic"}
             actual_columns == {Lower(df.cols[i]) : i \in DOMAIN df.cols}
             row_count == Len(df.rows)
         IN  IF df.hdr # "str"
             THEN DfResult(Raise("AttributeError", ".str accessor"), None)
             ELSE IF ~(expected_columns \subseteq actual_columns)
             THEN DfResult(Raise("ExtractionError", "Missing required columns"), None)
             ELSE IF row_count = 0
             THEN DfResult(Raise("ExtractionError", "no data rows"), None)
             ELSE DfResult(Ok, Some(df))

(***************************************************************************)
(* Column access on a table.                                               *)
(***************************************************************************)
HasCol(df, name) == \E i \in DOMAIN df.cols : df.cols[i] = name
ColIndex(df, name) == CHOOSE i \in DOMAIN df.cols : df.cols[i] = name
Column(df, name) == [r \in DOMAIN df.rows |-> df.rows[r][ColIndex(df, name)]]

SetColumn(df, name, values) ==
    IF HasCol(df, name)
    THEN [df EXCEPT !.rows = [r \in DOMAIN df.rows |->
                                 [df.rows[r] EXCEPT ![ColIndex(df, name)] = values[r]]]]
    ELSE [df EXCEPT !.cols = Append(df.cols, name),
                    !.rows = [r \in DOMAIN df.rows |-> Append(df.rows[r], values[r])]]

IsNa(cell) == cell.t = "null"
NullCount(df, name) == Cardinality({r \in DOMAIN df.rows : IsNa(Column(df, name)[r])})

(***************************************************************************)
(* parse_time_column, transform.py:131-164.  "dmy" is day-first text,      *)
(* "dt" a native datetime, "iso" the canonical YYYY-mm-dd HH:MM:SS string; *)
(* v is the instant the value denotes.                                     *)
(***************************************************************************)
ToIso(cell) == IF cell.t \in {"dmy", "dt", "iso"} THEN Cell("iso", cell.v) ELSE cell

parse_time_column(df) ==
    IF ~HasCol(df, "time")
    THEN DfResult(Raise("TransformationError", "Failed to parse time column"), None)
    ELSE IF \E r \in DOMAIN df.rows : Column(df, "time")[r].t \in {"text", "num"}
    THEN DfResult(Raise("TransformationError", "Failed to parse time column"), None)
    ELSE IF NullCount(df, "time") > 0
    THEN DfResult(Raise("TransformationError", "Failed to parse time values"), None)
    ELSE DfResult(Ok, Some(SetColumn(df, "time",
                                     [r \in DOMAIN df.rows |-> ToIso(Column(df, "time")[r])])))

(***************************************************************************)
(* add_created_at, transform.py:201-210.  now is the clock reading, in     *)
(* ticks; strftime keeps whole seconds.                                    *)
(***************************************************************************)
\* An add_created_at that reads the clock again for every row.
add_created_at_per_row(df, now) ==
    SetColumn(df, "created_at",
              [r \in DOMAIN df.rows |-> Cell("iso", (now + r - 1) \div TicksPerSecond)])

add_created_at(df, now) ==
    LET created_at == Cell("iso", now \div TicksPerSecond)
    IN  SetColumn(df, "created_at", [r \in DOMAIN df.rows |-> created_at])

(***************************************************************************)
(* The caller's DataFrame as parse_time_column and add_created_at leave    *)
(* it.  Both rebind their local name to df.copy() first (transform.py:135, *)
(* 201), so every later assignment lands on the copy.                      *)
(***************************************************************************)
\* A parse_time_column without the copy: df["time"] is assigned on the
\* caller's DataFrame.
parse_time_column_arg_no_copy(df) ==
    IF parse_time_column(df).res = Ok THEN parse_time_column(df).df[1] ELSE df

parse_time_column_arg(df) == df

add_created_at_arg(df, now) == df

(***************************************************************************)
(* validate_data, transform.py:250-291.                                    *)
(***************************************************************************)
\* A validate_data that checks the time column for nulls and not the
\* traffic column.
validate_data_time_only(df) ==
    LET required_columns == {"time", "traffic", "created_at"}
        missing == required_columns \ Range(df.cols)
    IN  IF missing # {}
        THEN DfResult(Raise("TransformationError", "Missing required columns after transform"), None)
        ELSE IF NullCount(df, "time") > 0
        THEN DfResult(Raise("TransformationError", "null values in time"), None)
        ELSE IF \E r \in DOMAIN df.rows : Column(df, "traffic")[r].t \notin {"num", "null"}
        THEN DfResult(Raise("TransformationError", "Traffic column must contain numeric values"), None)
        ELSE DfResult(Ok, Some(df))

\* A validate_data that treats a negative traffic value as an error.
validate_data_rejects_negative(df) ==
    LET required_columns == {"time", "traffic", "created_at"}
        missing == required_columns \ Range(df.cols)
    IN  IF missing # {}
        THEN DfResult(Raise("TransformationError", "Missing required columns after transform"), None)
        ELSE IF NullCount(df, "time") > 0
        THEN DfResult(Raise("TransformationError", "null values in time"), None)
        ELSE IF NullCount(df, "traffic") > 0
        THEN DfResult(Raise("TransformationError", "null values in traffic"), None)
        ELSE IF \E r \in DOMAIN df.rows : Column(df, "traffic")[r].t # "num"
        THEN DfResult(Raise("TransformationError", "Traffic column must contain numeric values"), None)
        ELSE IF \E r \in DOMAIN df.rows : Column(df, "traffic")[r].v < 0
        THEN DfResult(Raise("TransformationError", "negative traffic"), None)
        ELSE DfResult(Ok, Some(df))

validate_data(df) ==
    LET required_columns == {"time", "traffic", "created_at"}
        missing == required_columns \ Range(df.cols)
    IN  IF missing # {}
        THEN DfResult(Raise("TransformationError", "Missing required columns after transform"), None)
        ELSE IF NullCount(df, "time") > 0
        THEN DfResult(Raise("TransformationError", "null values in time"), None)
        ELSE IF NullCount(df, "traffic") > 0
        THEN DfResult(Raise("TransformationError", "null values in traffic"), None)
        ELSE IF \E r \in DOMAIN df.rows : Column(df, "traffic")[r].t # "num"
        THEN DfResult(Raise("TransformationError", "Traffic column must contain numeric values"), None)
        ELSE DfResult(Ok, Some(df))

(***************************************************************************)
(* transform, transform.py:323-341.  The first statement assigns the       *)
(* lower-cased labels to the caller's DataFrame in place; arg is the       *)
(* caller's DataFrame as the call leaves it.                               *)
(***************************************************************************)
\* A transform without the final column selection.
Project_keep_all(df, names) == df

Project(df, names) ==
    Table(df.hdr, names,
          [r \in DOMAIN df.rows |-> [i \in DOMAIN names |-> Column(df, names[i])[r]]])

TransformResult(res, df, arg) == [res |-> res, df |-> df, arg |-> arg]

\* A transform that goes on after a failed time normalisation and reports
\* the failure of the validation when there is one.
transform_reports_later_failure(df, now) ==
    LET lowered == [df EXCEPT !.cols = [i \in DOMAIN df.cols |-> Lower(df.cols[i])]]
        parsed == parse_time_column(lowered)
        stamped == add_created_at(IF parsed.res = Ok THEN parsed.df[1] ELSE lowered, now)
        validated == validate_data(stamped)
    IN  IF validated.res # Ok
        THEN TransformResult(validated.res, None, lowered)
        ELSE IF parsed.res # Ok
        THEN TransformResult(parsed.res, None, lowered)
        ELSE TransformResult(Ok,
                             Some(Project(validated.df[1], <<"time", "traffic", "created_at">>)),
                             lowered)

transform(df, now) ==
    LET lowered == [df EXCEPT !.cols = [i \in DOMAIN df.cols |-> Lower(df.cols[i])]]
        parsed == parse_time_column(lowered)
    IN  IF parsed.res # Ok
        THEN TransformResult(parsed.res, None, lowered)
        ELSE LET stamped == add_created_at(parsed.df[1], now)
                 validated == validate_data(stamped)
             IN  IF validated.res # Ok
                 THEN TransformResult(validated.res, None, lowered)
                 ELSE TransformResult(Ok,
                                      Some(Project(validated.df[1], <<"time", "traffic", "created_at">>)),
                                      lowered)

(***************************************************************************)
(* Run timestamp, __main__.py:131: the clock reading formatted to whole    *)
(* seconds.                                                                *)
(***************************************************************************)
strftime(now) == ToString(now \div TicksPerSecond)

(***************************************************************************)
(* save_to_csv, transform.py:379-396.  csv_filename is the file name the   *)
(* function builds (transform.py:386-388); fault is the filesystem's       *)
(* answer to mkdir/to_csv ("none" | "oserror").                            *)
(***************************************************************************)
csv_filename(timestamp) == "traffic_data.csv"

SaveFaults == {"none", "oserror"}

SaveResult(res, path, files) == [res |-> res, path |-> path, files |-> files]

save_to_csv(df, output_dir, timestamp, by, files, fault) ==
    LET filename == csv_filename(timestamp)
        output_path == Join(output_dir, filename)
    IN  IF fault = "oserror"
        THEN SaveResult(Raise("OSError", "cannot write"), None, files)
        ELSE SaveResult(Ok, Some(output_path), Put(files, output_path, File("csv", df, by)))

(***************************************************************************)
(* Blob Store locations.                                                   *)
(***************************************************************************)
GcsUri(bucket_name, blob_name) == "gs://" \o bucket_name \o "/" \o blob_name

csv_blob_name(run_timestamp) == "processed/traffic_data_" \o run_timestamp \o ".csv"

backup_blob_name(run_timestamp) == "backups/traffic_spreadsheet_" \o run_timestamp \o ".xls"

(***************************************************************************)
(* upload_to_gcs, load.py:126-199.  fault is the first step at which the   *)
(* Blob Store or the filesystem misbehaves.  bucket.reload() is guarded    *)
(* for NotFound and Forbidden only.                                        *)
(***************************************************************************)
GcsFaults ==
    {"none", "client", "reload_notfound", "reload_forbidden", "reload_unavailable",
     "upload_forbidden", "upload_error", "unlink"}

UploadResult(res, uri, files, store) ==
    [res |-> res, uri |-> uri, files |-> files, store |-> store]

\* An upload_to_gcs that removes the local file before it uploads.
upload_to_gcs_unlink_first(local_path, bucket_name, destination_blob_name, files, store, fault) ==
    LET gcs_uri == GcsUri(bucket_name, destination_blob_name)
        removed == IF local_path \in DOMAIN files THEN Del(files, local_path) ELSE files
    IN  IF fault = "client"
        THEN UploadResult(Raise("LoadError", "Failed to create GCS client"), None, files, store)
        ELSE IF fault = "reload_notfound"
        THEN UploadResult(Raise("LoadError", "GCS bucket not found"), None, files, store)
        ELSE IF fault = "reload_forbidden"
        THEN UploadResult(Raise("LoadError", "Permission denied accessing bucket"), None, files, store)
        ELSE IF fault = "reload_unavailable"
        THEN UploadResult(Raise("ServiceUnavailable", "bucket.reload"), None, files, store)
        ELSE IF fault = "upload_forbidden"
        THEN UploadResult(Raise("LoadError", "Permission denied uploading"), None, removed, store)
        ELSE IF fault = "upload_error" \/ local_path \notin DOMAIN files
        THEN UploadResult(Raise("LoadError", "Failed to upload file to GCS"), None, removed, store)
        ELSE UploadResult(Ok, Some(gcs_uri), removed, Put(store, gcs_uri, files[local_path]))

upload_to_gcs(local_path, bucket_name, destination_blob_name, files, store, fault) ==
    LET gcs_uri == GcsUri(bucket_name, destination_blob_name)
    IN  IF fault = "client"
        THEN UploadResult(Raise("LoadError", "Failed to create GCS client"), None, files, store)
        ELSE IF fault = "reload_notfound"
        THEN UploadResult(Raise("LoadError", "GCS bucket not found"), None, files, store)
        ELSE IF fault = "reload_forbidden"
        THEN UploadResult(Raise("LoadError", "Permission denied accessing bucket"), None, files, store)
        ELSE IF fault = "reload_unavailable"
        THEN UploadResult(Raise("ServiceUnavailable", "bucket.reload"), None, files, store)
        ELSE IF fault = "upload_forbidden"
        THEN UploadResult(Raise("LoadError", "Permission denied uploading"), None, files, store)
        ELSE IF fault = "upload_error" \/ local_path \notin DOMAIN files
        THEN UploadResult(Raise("LoadError", "Failed to upload file to GCS"), None, files, store)
        ELSE UploadResult(Ok, Some(gcs_uri),
                          IF fault = "unlink" THEN files ELSE Del(files, local_path),
                          Put(store, gcs_uri, files[local_path]))

(***************************************************************************)
(* upload_backup_to_gcs(local_xls_path, bucket, run_timestamp): imported   *)
(* and called by run_etl (__main__.py:58, 202-206); load.py does not       *)
(* define it.  Modelled from the specification's backup operation: copy    *)
(* the original source into the backups area under a run-timestamp key,    *)
(* LoadError when the source no longer exists or access is denied.         *)
(***************************************************************************)
BackupFaults == {"none", "forbidden"}

upload_backup_to_gcs(local_xls_path, bucket_name, run_timestamp, files, store, fault) ==
    LET gcs_uri == GcsUri(bucket_name, backup_blob_name(run_timestamp))
    IN  IF local_xls_path \notin DOMAIN files
        THEN UploadResult(Raise("LoadError", "Source file not found"), None, files, store)
        ELSE IF fault = "forbidden"
        THEN UploadResult(Raise("LoadError", "Permission denied"), None, files, store)
        ELSE UploadResult(Ok, Some(gcs_uri), files, Put(store, gcs_uri, files[local_xls_path]))

(***************************************************************************)
(* load_to_bigquery, load.py:326-434.  The client is created from          *)
(* config.PROJECT_ID inside the try block of load.py:334-341; an attribute *)
(* Config lacks raises AttributeError there, which that block turns into   *)
(* LoadError.  fault is the Warehouse's answer to the job.  A job is       *)
(* [uri, table, disposition]; the table is its list of loaded rows.        *)
(***************************************************************************)
BqFaults ==
    {"none", "client", "notfound_dataset", "notfound", "forbidden", "schema", "error"}

WriteDisposition(config) ==
    IF config.write_disposition = "append" THEN "WRITE_APPEND" ELSE "WRITE_TRUNCATE"

Job(uri, tbl, disposition) == [uri |-> uri, tbl |-> tbl, disposition |-> disposition]

LoadResult(res, rows, submitted, tbl) ==
    [res |-> res, rows |-> rows, submitted |-> submitted, tbl |-> tbl]

load_to_bigquery(gcs_uri, config, store, submitted, tbl, fault) ==
    IF ~HasAttr(config, "PROJECT_ID") \/ fault = "client"
    THEN LoadResult(Raise("LoadError", "Failed to create BigQuery client"), 0, submitted, tbl)
    ELSE LET job == Job(gcs_uri, bq_table_id(config), WriteDisposition(config))
             sent == Append(submitted, job)
             data == IF gcs_uri \in DOMAIN store THEN store[gcs_uri].table.rows ELSE <<>>
         IN  IF fault = "notfound_dataset"
             THEN LoadResult(Raise("LoadError", "BigQuery dataset not found"), 0, sent, tbl)
             ELSE IF fault = "notfound" \/ gcs_uri \notin DOMAIN store
             THEN LoadResult(Raise("LoadError", "BigQuery resource not found"), 0, sent, tbl)
             ELSE IF fault = "forbidden"
             THEN LoadResult(Raise("LoadError", "Permission denied accessing BigQuery"), 0, sent, tbl)
             ELSE IF fault = "schema"
             THEN LoadResult(Raise("LoadError", "Schema mismatch loading to BigQuery"), 0, sent, tbl)
             ELSE IF fault = "error"
             THEN LoadResult(Raise("LoadError", "Failed to load data into BigQuery"), 0, sent, tbl)
             ELSE LoadResult(Ok, Len(data), sent,
                             IF job.disposition = "WRITE_APPEND" THEN tbl \o data ELSE data)

(***************************************************************************)
(* verify_bigquery_load, load.py:457-477: TRUE when the count query        *)
(* succeeded, FALSE when anything in the try block raised.  It never       *)
(* raises.  fault is the Warehouse's answer to the query.                  *)
(***************************************************************************)
VerifyFaults == {"none", "client", "query"}

verify_bigquery_load(config, expected_rows, tbl, fault) ==
    IF ~HasAttr(config, "PROJECT_ID") \/ fault # "none"
    THEN FALSE
    ELSE TRUE

(***************************************************************************)
(* Extraction from the Blob Store, extract.py:87-226.  fault is the first  *)
(* step at which the Blob Store or the filesystem misbehaves.              *)
(*   tempfile.NamedTemporaryFile(delete=False) creates an empty file under *)
(*   a name no file has; blob.download_to_filename writes into it.  When   *)
(*   the download fails the file stays as it is, except that the client    *)
(*   library deletes a file whose checksum failed ("download_corrupt").    *)
(***************************************************************************)
BUCKET == "bucket"
RAW_BLOB == "raw_data/traffic_spreadsheet.xls"

TempPath(files) ==
    Join("tmp", "tmp" \o ToString(Cardinality({p \in DOMAIN files : Parent(p) = "tmp"}) + 1)
                      \o ".xls")

GcsExtractFaults ==
    {"none", "client", "exists_unavailable", "bucket_notfound", "forbidden", "tempfile",
     "download_forbidden", "download_error", "download_corrupt", "unlink"}

DownloadResult(res, path, temp, files) ==
    [res |-> res, path |-> path, temp |-> temp, files |-> files]

download_from_gcs(bucket_name, source_blob_path, files, store, fault) ==
    LET gcs_uri == GcsUri(bucket_name, source_blob_path)
        temp_path == TempPath(files)
        created == Put(files, temp_path, File("garbage", EmptyTable, 0))
    IN  IF fault = "client"
        THEN DownloadResult(Raise("ExtractionError", "Failed to create GCS client"),
                            None, None, files)
        ELSE IF fault = "exists_unavailable"
        THEN DownloadResult(Raise("ServiceUnavailable", "blob.exists"), None, None, files)
        ELSE IF fault = "bucket_notfound"
        THEN DownloadResult(Raise("ExtractionError", "GCS bucket not found"), None, None, files)
        ELSE IF fault = "forbidden"
        THEN DownloadResult(Raise("ExtractionError", "Permission denied accessing GCS"),
                            None, None, files)
        ELSE IF gcs_uri \notin DOMAIN store
        THEN DownloadResult(Raise("ExtractionError", "Source file not found in GCS"),
                            None, None, files)
        ELSE IF fault = "tempfile"
        THEN DownloadResult(Raise("ExtractionError", "Failed to download file from GCS"),
                            None, None, files)
        ELSE IF fault = "download_forbidden"
        THEN DownloadResult(Raise("ExtractionError", "Permission denied downloading from GCS"),
                            None, Some(temp_path), created)
        ELSE IF fault = "download_error"
        THEN DownloadResult(Raise("ExtractionError", "Failed to download file from GCS"),
                            None, Some(temp_path), created)
        ELSE IF fault = "download_corrupt"
        THEN DownloadResult(Raise("ExtractionError", "Failed to download file from GCS"),
                            None, Some(temp_path), files)
        ELSE DownloadResult(Ok, Some(temp_path), Some(temp_path),
                            Put(files, temp_path, store[gcs_uri]))

\* _read_excel_file, extract.py:229-273: the statements of extract_from_xls.
_read_excel_file(file_path, files) == extract_from_xls(file_path, files)

ExtractResult(res, df, temp, files) ==
    [res |-> res, df |-> df, temp |-> temp, files |-> files]

extract_from_gcs(bucket_name, source_blob_path, files, store, fault) ==
    LET d == download_from_gcs(bucket_name, source_blob_path, files, store, fault)
    IN  IF d.res # Ok
        THEN ExtractResult(d.res, None, d.temp, d.files)
        ELSE LET read == _read_excel_file(d.path[1], d.files)
             IN  ExtractResult(read.res, read.df, d.temp,
                               IF fault = "unlink" THEN d.files ELSE Del(d.files, d.path[1]))

(***************************************************************************)
(* State.  Per run: the position in run_etl (pc names the next call), the  *)
(* local variables of run_etl, the credentials variable of the process     *)
(* environment, the outcome, and the history of calls made.  Shared: the   *)
(* clock, the local filesystem, the Blob Store, the Warehouse.             *)
(***************************************************************************)
VARIABLES clock, pc, run_timestamp, environ, config, df, csv_path, gcs_uri,
          rows_loaded, outcome, trace, files, store, submitted, warehouse, direct

vars == <<clock, pc, run_timestamp, environ, config, df, csv_path, gcs_uri,
          rows_loaded, outcome, trace, files, store, submitted, warehouse, direct>>

(***************************************************************************)
(* direct records the calls made on the package's functions from outside   *)
(* run_etl (as tests/ and importing code make them): the function, the     *)
(* arguments of each call and what each call returned or raised.  No such  *)
(* call is made while run_etl runs.                                        *)
(***************************************************************************)
Direct(op, in, out) == [op |-> op, in |-> in, out |-> out]
NoCall == Direct("none", <<>>, <<>>)

Running == [kind |-> "running", code |-> -1, exc |-> "none"]
Returned(code) == [kind |-> "returned", code |-> code, exc |-> "none"]
Raised(exc) == [kind |-> "raised", code |-> -1, exc |-> exc]

Call(op, res, fault) ==
    [op |-> op, exc |-> res.exc, env |-> IF fault = "none" THEN "ok" ELSE "fault"]

(***************************************************************************)
(* run_etl's control flow, __main__.py:140-229.                            *)
(*   program_order: the calls in the order the function makes them.        *)
(*   Handler(op): the error kind caught by the try block around the call.  *)
(*   ExitCode(kind): the code the matching except clause returns.          *)
(*   After(op, res): where the run stands once the call has ended.         *)
(***************************************************************************)
\* A run_etl that stages the artifact before backing up the source.
program_order_staging_first ==
    <<"load_config", "extract_from_xls", "transform", "save_to_csv",
      "upload_to_gcs", "upload_backup_to_gcs", "load_to_bigquery">>

program_order ==
    <<"load_config", "extract_from_xls", "transform", "save_to_csv",
      "upload_backup_to_gcs", "upload_to_gcs", "load_to_bigquery">>

Handler(op) ==
    CASE op = "load_config" -> "ConfigError"
      [] op = "extract_from_xls" -> "ExtractionError"
      [] op \in {"transform", "save_to_csv"} -> "TransformationError"
      [] OTHER -> "LoadError"

\* A run_etl whose transformation handler returns the load code.
ExitCode_transform_as_load(kind) ==
    CASE kind = "ConfigError" -> EXIT_CONFIG_ERROR
      [] kind = "ExtractionError" -> EXIT_EXTRACTION_ERROR
      [] kind = "TransformationError" -> EXIT_LOAD_ERROR
      [] kind = "LoadError" -> EXIT_LOAD_ERROR

ExitCode(kind) ==
    CASE kind = "ConfigError" -> EXIT_CONFIG_ERROR
      [] kind = "ExtractionError" -> EXIT_EXTRACTION_ERROR
      [] kind = "TransformationError" -> EXIT_TRANSFORM_ERROR
      [] kind = "LoadError" -> EXIT_LOAD_ERROR

Position(op) == CHOOSE i \in DOMAIN program_order : program_order[i] = op

\* A run_etl that calls upload_to_gcs again when it raised LoadError.
After_retry_staging(op, res) ==
    IF res.exc = "none"
    THEN IF Position(op) = Len(program_order)
         THEN [pc |-> "done", outcome |-> Returned(EXIT_SUCCESS)]
         ELSE [pc |-> program_order[Position(op) + 1], outcome |-> Running]
    ELSE IF res.exc = Handler(op)
    THEN IF op = "upload_to_gcs"
         THEN [pc |-> op, outcome |-> Running]
         ELSE [pc |-> "done", outcome |-> Returned(ExitCode(res.exc))]
    ELSE [pc |-> "done", outcome |-> Raised(res.exc)]

\* A run_etl that goes on to save_to_csv when transform raised
\* TransformationError.
After_save_failed_transform(op, res) ==
    IF res.exc = "none"
    THEN IF Position(op) = Len(program_order)
         THEN [pc |-> "done", outcome |-> Returned(EXIT_SUCCESS)]
         ELSE [pc |-> program_order[Position(op) + 1], outcome |-> Running]
    ELSE IF res.exc = Handler(op)
    THEN IF op = "transform"
         THEN [pc |-> "save_to_csv", outcome |-> Running]
         ELSE [pc |-> "done", outcome |-> Returned(ExitCode(res.exc))]
    ELSE [pc |-> "done", outcome |-> Raised(res.exc)]

After(op, res) ==
    IF res.exc = "none"
    THEN IF Position(op) = Len(program_order)
         THEN [pc |-> "done", outcome |-> Returned(EXIT_SUCCESS)]
         ELSE [pc |-> program_order[Position(op) + 1], outcome |-> Running]
    ELSE IF res.exc = Handler(op)
    THEN [pc |-> "done", outcome |-> Returned(ExitCode(res.exc))]
    ELSE [pc |-> "done", outcome |-> Raised(res.exc)]

(***************************************************************************)
(* The status of the process, __main__.py:372-373: sys.exit(main()) passes *)
(* on the code run_etl returned; an exception that leaves run_etl leaves   *)
(* main() too and the interpreter ends the process itself.                 *)
(***************************************************************************)
ProcessStatus(o) == IF o.kind = "raised" THEN PY_UNCAUGHT_EXIT ELSE o.code

(***************************************************************************)
(* Initial state: no run has started; every source directory holds the     *)
(* same spreadsheet and the credentials file exists.                       *)
(***************************************************************************)
InitialFiles(sheet) ==
    [p \in {Join(d, XLS_NAME) : d \in Dirs} \cup {CredFile} |->
        IF p = CredFile THEN File("json", EmptyTable, 0) ELSE sheet]

Init ==
    /\ clock = 0
    /\ pc = [r \in Runs |-> "idle"]
    /\ run_timestamp = [r \in Runs |-> ""]
    /\ environ \in [Runs -> Credentials]
    /\ config = [r \in Runs |-> None]
    /\ df = [r \in Runs |-> None]
    /\ csv_path = [r \in Runs |-> None]
    /\ gcs_uri = [r \in Runs |-> None]
    /\ rows_loaded = [r \in Runs |-> 0]
    /\ outcome = [r \in Runs |-> Running]
    /\ trace = [r \in Runs |-> <<>>]
    /\ \E sheet \in Spreadsheets : files = InitialFiles(sheet)
    /\ store = <<>>
    /\ submitted = <<>>
    /\ warehouse = <<>>
    /\ direct = NoCall

(***************************************************************************)
(* Time passes.  The clock is read on entry to run_etl and by              *)
(* add_created_at; it stops once no run will read it again.                *)
(***************************************************************************)
ReadsClock(r) == pc[r] \in {"idle", "load_config", "extract_from_xls", "transform"}

Tick ==
    /\ clock < MaxClock
    /\ \E r \in Runs : ReadsClock(r)
    /\ clock' = clock + 1
    /\ UNCHANGED <<direct, pc, run_timestamp, environ, config, df, csv_path, gcs_uri,
                   rows_loaded, outcome, trace, files, store, submitted, warehouse>>

(***************************************************************************)
(* run_etl is entered: __main__.py:125-132.  Runs are numbered in the      *)
(* order in which they start.                                              *)
(***************************************************************************)
Start(r) ==
    /\ pc[r] = "idle"
    /\ \A q \in Runs : q < r => pc[q] # "idle"
    /\ pc' = [pc EXCEPT ![r] = program_order[1]]
    /\ run_timestamp' = [run_timestamp EXCEPT ![r] = strftime(clock)]
    /\ UNCHANGED <<direct, clock, environ, config, df, csv_path, gcs_uri, rows_loaded,
                   outcome, trace, files, store, submitted, warehouse>>

(***************************************************************************)
(* Configuration phase, __main__.py:140-158.                               *)
(***************************************************************************)
LoadConfig(r) ==
    /\ pc[r] = "load_config"
    /\ \E env \in Environments, truncate \in BOOLEAN :
         LET c == load_config(env, environ[r], files)
             a == After("load_config", c.res)
         IN  /\ environ' = [environ EXCEPT ![r] = c.cred]
             /\ config' = [config EXCEPT ![r] = ConfigPhase(c, truncate).config]
             /\ trace' = [trace EXCEPT ![r] = Append(@, Call("load_config", c.res, c.res.exc))]
             /\ pc' = [pc EXCEPT ![r] = a.pc]
             /\ outcome' = [outcome EXCEPT ![r] = a.outcome]
    /\ UNCHANGED <<direct, clock, run_timestamp, df, csv_path, gcs_uri, rows_loaded,
                   files, store, submitted, warehouse>>

(***************************************************************************)
(* Extract phase, __main__.py:165-170.                                     *)
(***************************************************************************)
Extract(r) ==
    /\ pc[r] = "extract_from_xls"
    /\ LET e == extract_from_xls(config[r][1].local_xls_path, files)
           a == After("extract_from_xls", e.res)
       IN  /\ df' = [df EXCEPT ![r] = e.df]
           /\ trace' = [trace EXCEPT ![r] = Append(@, Call("extract_from_xls", e.res, e.res.exc))]
           /\ pc' = [pc EXCEPT ![r] = a.pc]
           /\ outcome' = [outcome EXCEPT ![r] = a.outcome]
    /\ UNCHANGED <<direct, clock, run_timestamp, environ, config, csv_path, gcs_uri,
                   rows_loaded, files, store, submitted, warehouse>>

(***************************************************************************)
(* Transform phase, first statement: __main__.py:177-179.  On failure the  *)
(* name df still refers to the raw DataFrame, whose labels transform has   *)
(* lower-cased.                                                            *)
(***************************************************************************)
Transform(r) ==
    /\ pc[r] = "transform"
    /\ LET t == transform(df[r][1], clock)
           a == After("transform", t.res)
       IN  /\ df' = [df EXCEPT ![r] = IF t.res = Ok THEN t.df ELSE Some(t.arg)]
           /\ trace' = [trace EXCEPT ![r] = Append(@, Call("transform", t.res, t.res.exc))]
           /\ pc' = [pc EXCEPT ![r] = a.pc]
           /\ outcome' = [outcome EXCEPT ![r] = a.outcome]
    /\ UNCHANGED <<direct, clock, run_timestamp, environ, config, csv_path, gcs_uri,
                   rows_loaded, files, store, submitted, warehouse>>

(***************************************************************************)
(* Transform phase, second statement: __main__.py:185-189.                 *)
(***************************************************************************)
SaveToCsv(r) ==
    /\ pc[r] = "save_to_csv"
    /\ \E fault \in SaveFaults :
         LET output_dir == Parent(config[r][1].local_xls_path)
             s == save_to_csv(df[r][1], output_dir, run_timestamp[r], r, files, fault)
             a == After("save_to_csv", s.res)
         IN  /\ files' = s.files
             /\ csv_path' = [csv_path EXCEPT ![r] = s.path]
             /\ trace' = [trace EXCEPT ![r] = Append(@, Call("save_to_csv", s.res, fault))]
             /\ pc' = [pc EXCEPT ![r] = a.pc]
             /\ outcome' = [outcome EXCEPT ![r] = a.outcome]
    /\ UNCHANGED <<direct, clock, run_timestamp, environ, config, df, gcs_uri,
                   rows_loaded, store, submitted, warehouse>>

(***************************************************************************)
(* Load phase, backup: __main__.py:196-206.                                *)
(***************************************************************************)
UploadBackup(r) ==
    /\ pc[r] = "upload_backup_to_gcs"
    /\ \E fault \in BackupFaults :
         LET b == upload_backup_to_gcs(config[r][1].local_xls_path, config[r][1].gcs_bucket,
                                       run_timestamp[r], files, store, fault)
             a == After("upload_backup_to_gcs", b.res)
         IN  /\ store' = b.store
             /\ trace' = [trace EXCEPT ![r] = Append(@, Call("upload_backup_to_gcs", b.res, fault))]
             /\ pc' = [pc EXCEPT ![r] = a.pc]
             /\ outcome' = [outcome EXCEPT ![r] = a.outcome]
    /\ UNCHANGED <<direct, clock, run_timestamp, environ, config, df, csv_path, gcs_uri,
                   rows_loaded, files, submitted, warehouse>>

(***************************************************************************)
(* Load phase, staging: __main__.py:211-212.                               *)
(***************************************************************************)
UploadToGcs(r) ==
    /\ pc[r] = "upload_to_gcs"
    /\ \E fault \in GcsFaults :
         LET u == upload_to_gcs(csv_path[r][1], config[r][1].gcs_bucket,
                                csv_blob_name(run_timestamp[r]), files, store, fault)
             a == After("upload_to_gcs", u.res)
         IN  /\ files' = u.files
             /\ store' = u.store
             /\ gcs_uri' = [gcs_uri EXCEPT ![r] = u.uri]
             /\ trace' = [trace EXCEPT ![r] = Append(@, Call("upload_to_gcs", u.res, fault))]
             /\ pc' = [pc EXCEPT ![r] = a.pc]
             /\ outcome' = [outcome EXCEPT ![r] = a.outcome]
    /\ UNCHANGED <<direct, clock, run_timestamp, environ, config, df, csv_path,
                   rows_loaded, submitted, warehouse>>

(***************************************************************************)
(* Load phase, warehouse load and verification: __main__.py:216-229.       *)
(* verify_bigquery_load is called only when load_to_bigquery returned; its *)
(* result is discarded.                                                    *)
(***************************************************************************)
\* A load phase that deletes the staged artifact when the load failed.
LoadToBigQuery_rollback(r) ==
    /\ pc[r] = "load_to_bigquery"
    /\ \E fault \in BqFaults, vfault \in VerifyFaults :
         LET l == load_to_bigquery(gcs_uri[r][1], config[r][1], store, submitted, warehouse, fault)
             a == After("load_to_bigquery", l.res)
             called == <<Call("load_to_bigquery", l.res, fault)>>
             verified == <<Call("verify_bigquery_load", Ok, vfault)>>
         IN  /\ submitted' = l.submitted
             /\ warehouse' = l.tbl
             /\ rows_loaded' = [rows_loaded EXCEPT ![r] = l.rows]
             /\ store' = IF l.res = Ok \/ gcs_uri[r][1] \notin DOMAIN store
                         THEN store
                         ELSE Del(store, gcs_uri[r][1])
             /\ trace' = [trace EXCEPT ![r] =
                            @ \o called \o (IF l.res = Ok THEN verified ELSE <<>>)]
             /\ pc' = [pc EXCEPT ![r] = a.pc]
             /\ outcome' = [outcome EXCEPT ![r] = a.outcome]
    /\ UNCHANGED <<direct, clock, run_timestamp, environ, config, df, csv_path, gcs_uri,
                   files>>

LoadToBigQuery(r) ==
    /\ pc[r] = "load_to_bigquery"
    /\ \E fault \in BqFaults, vfault \in VerifyFaults :
         LET l == load_to_bigquery(gcs_uri[r][1], config[r][1], store, submitted, warehouse, fault)
             a == After("load_to_bigquery", l.res)
             v == verify_bigquery_load(config[r][1], l.rows, l.tbl, vfault)
             called == <<Call("load_to_bigquery", l.res, fault)>>
             verified == <<Call("verify_bigquery_load", Ok, vfault)>>
         IN  /\ submitted' = l.submitted
             /\ warehouse' = l.tbl
             /\ rows_loaded' = [rows_loaded EXCEPT ![r] = l.rows]
             /\ trace' = [trace EXCEPT ![r] =
                            @ \o called \o (IF l.res = Ok THEN verified ELSE <<>>)]
             /\ pc' = [pc EXCEPT ![r] = a.pc]
             /\ outcome' = [outcome EXCEPT ![r] = a.outcome]
    /\ UNCHANGED <<direct, clock, run_timestamp, environ, config, df, csv_path, gcs_uri,
                   files, store>>

Next ==
    \/ Tick
    \/ \E r \in Runs : Start(r)
    \/ \E r \in Runs : LoadConfig(r)
    \/ \E r \in Runs : Extract(r)
    \/ \E r \in Runs : Transform(r)
    \/ \E r \in Runs : SaveToCsv(r)
    \/ \E r \in Runs : UploadBackup(r)
    \/ \E r \in Runs : UploadToGcs(r)
    \/ \E r \in Runs : LoadToBigQuery(r)

Spec == Init /\ [][Next]_vars

(***************************************************************************)
(* The runs beside another writer of the source file: while a run stands   *)
(* between its extraction (__main__.py:165-170) and its backup             *)
(* (__main__.py:196-206), the file at LOCAL_XLS_PATH is replaced by        *)
(* another valid spreadsheet.  run_etl holds no lock on the file and       *)
(* hands the backup the path, not the content it read.                     *)
(***************************************************************************)
ReplacementSheet ==
    File("xls", Table("str", <<"time", "traffic">>,
                      << <<Cell("dmy", 3), Cell("num", 9)>> >>), 0)

ReplaceSource ==
    /\ \E r \in Runs : pc[r] \in {"transform", "save_to_csv", "upload_backup_to_gcs"}
    /\ files[Join("data", XLS_NAME)] # ReplacementSheet
    /\ files' = Put(files, Join("data", XLS_NAME), ReplacementSheet)
    /\ UNCHANGED <<direct, clock, pc, run_timestamp, environ, config, df, csv_path,
                   gcs_uri, rows_loaded, outcome, trace, store, submitted, warehouse>>

RaceNext ==
    \/ Next
    \/ ReplaceSource

RaceSpec == Init /\ [][RaceNext]_vars

(***************************************************************************)
(* Direct calls: the functions of the package called one at a time on a    *)
(* fresh fixture, as tests/ call them, with load_to_bigquery called up to  *)
(* MaxLoads times on the same staged artifact.  The fixture is a source    *)
(* spreadsheet on disk and in the Blob Store, a staged artifact in the     *)
(* Blob Store and a Warehouse table that is empty or holds an old row.     *)
(***************************************************************************)
MaxLoads == 2

DirectSpreadsheets ==
    Spreadsheets \cup
    { File("xls", Table("str", <<"time">>, << <<Cell("dmy", 1)>> >>), 0),
      File("xls", Table("str", <<"TIME", "traffic">>,
                        << <<Cell("dmy", 1), Cell("null", 0)>> >>), 0),
      File("xls", Table("str", <<"time", "Traffic">>,
                        << <<Cell("dt", 1), Cell("text", 0)>> >>), 0),
      File("xls", Table("str", <<"time", "traffic">>,
                        << <<Cell("null", 0), Cell("num", 6)>> >>), 0),
      File("xls", Table("str", <<"time", "traffic">>,
                        << <<Cell("dt", 1), Cell("null", 0)>> >>), 0),
      File("xls", Table("str", <<"time", "traffic">>,
                        << <<Cell("text", 0), Cell("null", 0)>> >>), 0) }

DirectEnvironments ==
    Environments \cup
    { BaseEnv("data", wd) : wd \in {Some("append"), Some("Append"), Some("")} } \cup
    { [BaseEnv("data", Some("truncate")) EXCEPT !.GCP_PROJECT = "", !.GCS_BUCKET = "",
                                                !.BQ_DATASET = "", !.BQ_TABLE = "",
                                                !.LOCAL_XLS_PATH = <<>>] }

StagedArtifact ==
    File("csv", Table("str", <<"time", "traffic", "created_at">>,
                      << <<Cell("iso", 1), Cell("num", 6), Cell("iso", 0)>>,
                         <<Cell("iso", 2), Cell("num", 7), Cell("iso", 0)>> >>), 0)

OldRows == << <<Cell("iso", 0), Cell("num", 5), Cell("iso", 0)>> >>

runVars == <<clock, pc, run_timestamp, config, df, csv_path, gcs_uri, rows_loaded,
             outcome, trace>>

DirectInit ==
    /\ clock \in 0..MaxClock
    /\ pc = [r \in Runs |-> "idle"]
    /\ run_timestamp = [r \in Runs |-> ""]
    /\ \E cred \in Credentials : environ = [r \in Runs |-> cred]
    /\ config = [r \in Runs |-> None]
    /\ df = [r \in Runs |-> None]
    /\ csv_path = [r \in Runs |-> None]
    /\ gcs_uri = [r \in Runs |-> None]
    /\ rows_loaded = [r \in Runs |-> 0]
    /\ outcome = [r \in Runs |-> Running]
    /\ trace = [r \in Runs |-> <<>>]
    /\ \E sheet \in DirectSpreadsheets :
          /\ files = InitialFiles(sheet)
          /\ store = [u \in {GcsUri(BUCKET, RAW_BLOB), GcsUri(BUCKET, csv_blob_name("0"))} |->
                         IF u = GcsUri(BUCKET, RAW_BLOB) THEN sheet ELSE StagedArtifact]
    /\ submitted = <<>>
    /\ warehouse \in {<<>>, OldRows}
    /\ direct = NoCall

\* load_config(), config.py:177-309, in the process of run 1.
DirectLoadConfig ==
    /\ direct = NoCall
    /\ \E env \in DirectEnvironments :
         LET c == load_config(env, environ[1], files)
         IN  /\ environ' = [environ EXCEPT ![1] = c.cred]
             /\ direct' = Direct("load_config", <<[env |-> env, cred |-> environ[1]]>>, <<c>>)
    /\ UNCHANGED <<runVars, files, store, submitted, warehouse>>

\* The configuration phase of run_etl(truncate), __main__.py:140-149.
DirectConfigPhase ==
    /\ direct = NoCall
    /\ \E env \in DirectEnvironments, truncate \in BOOLEAN :
         LET c == load_config(env, environ[1], files)
             phase == ConfigPhase(c, truncate)
         IN  /\ environ' = [environ EXCEPT ![1] = c.cred]
             /\ direct' = Direct("config_phase",
                                 <<[env |-> env, cred |-> environ[1], truncate |-> truncate]>>,
                                 <<[res |-> c.res, returned |-> c.config,
                                    loaded |-> phase.loaded, config |-> phase.config]>>)
    /\ UNCHANGED <<runVars, files, store, submitted, warehouse>>

\* extract_from_xls(file_path), extract.py:276-358.
DirectExtract ==
    /\ direct = NoCall
    /\ \E file_path \in {Join("data", XLS_NAME), Join("data", "gone.xls")} :
         direct' = Direct("extract_from_xls", <<[file_path |-> file_path]>>,
                          <<extract_from_xls(file_path, files)>>)
    /\ UNCHANGED <<runVars, environ, files, store, submitted, warehouse>>

\* extract_from_gcs(bucket_name, source_blob_path), extract.py:189-226.
DirectExtractGcs ==
    /\ direct = NoCall
    /\ \E blob \in {RAW_BLOB, "raw_data/gone.xls"}, fault \in GcsExtractFaults :
         LET e == extract_from_gcs(BUCKET, blob, files, store, fault)
         IN  /\ files' = e.files
             /\ direct' = Direct("extract_from_gcs",
                                 <<[source_blob_path |-> blob, fault |-> fault,
                                    files |-> files]>>,
                                 <<e>>)
    /\ UNCHANGED <<runVars, environ, store, submitted, warehouse>>

\* The DataFrame a direct call is given: the decoded source of the fixture.
HasFrame == /\ files[Join("data", XLS_NAME)].kind = "xls"
            /\ files[Join("data", XLS_NAME)].table.hdr = "str"
Frame == files[Join("data", XLS_NAME)].table

\* transform(df), transform.py:294-341.
DirectTransform ==
    /\ direct = NoCall
    /\ HasFrame
    /\ direct' = Direct("transform", <<[df |-> Frame, now |-> clock]>>,
                        <<transform(Frame, clock)>>)
    /\ UNCHANGED <<runVars, environ, files, store, submitted, warehouse>>

\* parse_time_column(df), transform.py:104-164.
DirectParseTimeColumn ==
    /\ direct = NoCall
    /\ HasFrame
    /\ direct' = Direct("parse_time_column", <<[df |-> Frame]>>,
                        <<TransformResult(parse_time_column(Frame).res,
                                          parse_time_column(Frame).df,
                                          parse_time_column_arg(Frame))>>)
    /\ UNCHANGED <<runVars, environ, files, store, submitted, warehouse>>

\* add_created_at(df), transform.py:167-210.
DirectAddCreatedAt ==
    /\ direct = NoCall
    /\ HasFrame
    /\ direct' = Direct("add_created_at", <<[df |-> Frame, now |-> clock]>>,
                        <<TransformResult(Ok, Some(add_created_at(Frame, clock)),
                                          add_created_at_arg(Frame, clock))>>)
    /\ UNCHANGED <<runVars, environ, files, store, submitted, warehouse>>

\* validate_data(df), transform.py:213-291, on the DataFrame as it is or
\* with the created_at column added.
DirectValidateData ==
    /\ direct = NoCall
    /\ HasFrame
    /\ \E given \in {Frame, add_created_at(Frame, clock)} :
         direct' = Direct("validate_data", <<[df |-> given]>>,
                          <<TransformResult(validate_data(given).res, validate_data(given).df,
                                            given)>>)
    /\ UNCHANGED <<runVars, environ, files, store, submitted, warehouse>>

\* upload_to_gcs(local_path, bucket_name, destination_blob_name),
\* load.py:87-199, on a file of the fixture or on a path that has no file.
DirectUploadToGcs ==
    /\ direct = NoCall
    /\ \E local_path \in {Join("data", XLS_NAME), Join("data", csv_filename("0"))},
          fault \in GcsFaults :
         LET u == upload_to_gcs(local_path, BUCKET, csv_blob_name("1"), files, store, fault)
         IN  /\ files' = u.files
             /\ store' = u.store
             /\ direct' = Direct("upload_to_gcs",
                                 <<[local_path |-> local_path, fault |-> fault,
                                    files |-> files, store |-> store]>>,
                                 <<[res |-> u.res, uri |-> u.uri]>>)
    /\ UNCHANGED <<runVars, environ, submitted, warehouse>>

\* verify_bigquery_load(config, expected_rows), load.py:437-477, with a
\* Config as load_config returns it.
DirectVerify ==
    /\ direct = NoCall
    /\ \E wd \in {None, Some("truncate")}, expected_rows \in {0, Len(warehouse), 2},
          fault \in VerifyFaults :
         LET c == load_config(BaseEnv("data", wd), Cred(FALSE, CredFile), files)
         IN  /\ c.res = Ok
             /\ direct' = Direct("verify_bigquery_load",
                                 <<[config |-> c.config[1], expected_rows |-> expected_rows,
                                    fault |-> fault]>>,
                                 <<[result |-> verify_bigquery_load(c.config[1], expected_rows,
                                                                    warehouse, fault)]>>)
    /\ UNCHANGED <<runVars, environ, files, store, submitted, warehouse>>

\* load_to_bigquery(gcs_uri, config), load.py:276-434, with a Config as
\* load_config returns it.
DirectLoad ==
    /\ direct = NoCall
    /\ \E wd \in {None, Some("truncate")}, fault \in BqFaults :
         LET c == load_config(BaseEnv("data", wd), Cred(FALSE, CredFile), files)
             uri == GcsUri(BUCKET, csv_blob_name("0"))
             l == load_to_bigquery(uri, c.config[1], store, submitted, warehouse, fault)
         IN  /\ c.res = Ok
             /\ submitted' = l.submitted
             /\ warehouse' = l.tbl
             /\ direct' = Direct("load_to_bigquery",
                                 <<[gcs_uri |-> uri, config |-> c.config[1], fault |-> fault,
                                    tbl |-> warehouse]>>,
                                 <<[res |-> l.res, rows |-> l.rows]>>)
    /\ UNCHANGED <<runVars, environ, files, store>>

\* The same call made again.
DirectLoadAgain ==
    /\ direct.op = "load_to_bigquery"
    /\ Len(direct.in) < MaxLoads
    /\ \E fault \in BqFaults :
         LET first == direct.in[1]
             l == load_to_bigquery(first.gcs_uri, first.config, store, submitted,
                                   warehouse, fault)
         IN  /\ submitted' = l.submitted
             /\ warehouse' = l.tbl
             /\ direct' = Direct("load_to_bigquery",
                                 Append(direct.in, [first EXCEPT !.fault = fault,
                                                                 !.tbl = warehouse]),
                                 Append(direct.out, [res |-> l.res, rows |-> l.rows]))
    /\ UNCHANGED <<runVars, environ, files, store>>

DirectNext ==
    \/ DirectLoadConfig
    \/ DirectConfigPhase
    \/ DirectExtract
    \/ DirectExtractGcs
    \/ DirectTransform
    \/ DirectParseTimeColumn
    \/ DirectAddCreatedAt
    \/ DirectValidateData
    \/ DirectUploadToGcs
    \/ DirectVerify
    \/ DirectLoad
    \/ DirectLoadAgain

DirectSpec == DirectInit /\ [][DirectNext]_vars

(***************************************************************************)
(* Vocabulary of the properties.                                           *)
(***************************************************************************)
Ops(r) == [i \in DOMAIN trace[r] |-> trace[r][i].op]

call_order == program_order \o <<"verify_bigquery_load">>

IsPrefix(s, t) == Len(s) <= Len(t) /\ \A i \in DOMAIN s : s[i] = t[i]

StageOf(op) ==
    CASE op = "load_config" -> 1
      [] op = "extract_from_xls" -> 2
      [] op \in {"transform", "save_to_csv"} -> 3
      [] OTHER -> 4

Called(r, op) == \E i \in DOMAIN trace[r] : trace[r][i].op = op
Succeeded(r, op) == \E i \in DOMAIN trace[r] : trace[r][i].op = op /\ trace[r][i].exc = "none"
Failed(r, op) == \E i \in DOMAIN trace[r] : trace[r][i].op = op /\ trace[r][i].exc # "none"
Healthy(r) == \A i \in DOMAIN trace[r] : trace[r][i].env = "ok"

Last(r) == trace[r][Len(trace[r])]

ExpectedCsvPath(r) ==
    Join(Parent(config[r][1].local_xls_path), "traffic_data_" \o run_timestamp[r] \o ".csv")
StagedUri(r) == GcsUri(config[r][1].gcs_bucket, csv_blob_name(run_timestamp[r]))
BackupUri(r) == GcsUri(config[r][1].gcs_bucket, backup_blob_name(run_timestamp[r]))

(***************************************************************************)
(* C1: in run_etl the calls are made in the fixed order configuration,     *)
(* extraction, transformation, load, each at most once; a call that raised *)
(* is the last call of the run (no later stage runs, nothing is retried),  *)
(* and the run has ended.                                                  *)
(***************************************************************************)
C1_StagesInOrderNoRetry ==
    \A r \in Runs :
        /\ IsPrefix(Ops(r), call_order)
        /\ \A i \in DOMAIN trace[r] : i < Len(trace[r]) => trace[r][i].exc = "none"
        /\ \A i \in DOMAIN trace[r] : trace[r][i].exc # "none" => pc[r] = "done"
        /\ \A i, j \in DOMAIN trace[r] : i < j => StageOf(trace[r][i].op) <= StageOf(trace[r][j].op)

C1_Witness ==
    \E r \in Runs :
        /\ pc[r] = "done"
        /\ Ops(r) = <<"load_config", "extract_from_xls", "transform", "save_to_csv",
                      "upload_backup_to_gcs", "upload_to_gcs">>
        /\ Last(r).exc = "LoadError"

(***************************************************************************)
(* C2: a run with a valid configuration, a readable source with valid      *)
(* rows and no fault from the Blob Store or the Warehouse ends in          *)
(* Complete and returns EXIT_SUCCESS.                                      *)
(***************************************************************************)
C2_HealthyRunCompletes ==
    \A r \in Runs :
        (pc[r] = "done" /\ Healthy(r)) => outcome[r] = Returned(EXIT_SUCCESS)

(***************************************************************************)
(* C3: the code run_etl returns is 1, 2, 3 or 4 exactly when the call that *)
(* failed raised ConfigError, ExtractionError, TransformationError or      *)
(* LoadError, it is the number of the stage of that call (the first and    *)
(* only failing one), and it is 0 only when every call succeeded.          *)
(***************************************************************************)
C3_DistinctExitCodes ==
    \A r \in Runs :
        outcome[r].kind = "returned" =>
            /\ outcome[r].code \in {EXIT_SUCCESS, EXIT_CONFIG_ERROR, EXIT_EXTRACTION_ERROR,
                                    EXIT_TRANSFORM_ERROR, EXIT_LOAD_ERROR}
            /\ (outcome[r].code = EXIT_CONFIG_ERROR) <=> (Last(r).exc = "ConfigError")
            /\ (outcome[r].code = EXIT_EXTRACTION_ERROR) <=> (Last(r).exc = "ExtractionError")
            /\ (outcome[r].code = EXIT_TRANSFORM_ERROR) <=> (Last(r).exc = "TransformationError")
            /\ (outcome[r].code = EXIT_LOAD_ERROR) <=> (Last(r).exc = "LoadError")
            /\ (outcome[r].code = EXIT_SUCCESS) =>
                   (\A i \in DOMAIN trace[r] : trace[r][i].exc = "none")
            /\ (outcome[r].code # EXIT_SUCCESS) => outcome[r].code = StageOf(Last(r).op)

C3_Witness ==
    \E r \in Runs :
        /\ outcome[r] = Returned(EXIT_TRANSFORM_ERROR)
        /\ Last(r).op = "transform"
        /\ Last(r).exc = "TransformationError"

(***************************************************************************)
(* C4: a run ended by an error that is none of the four declared kinds     *)
(* ends the process with EXIT_UNKNOWN_ERROR (99), a status no declared     *)
(* stage failure and no success has.                                       *)
(***************************************************************************)
C4_UnexpectedErrorIs99 ==
    \A r \in Runs :
        (outcome[r].kind = "raised" /\ outcome[r].exc \notin Declared) =>
            /\ ProcessStatus(outcome[r]) = EXIT_UNKNOWN_ERROR
            /\ ProcessStatus(outcome[r]) \notin {EXIT_SUCCESS, EXIT_CONFIG_ERROR,
                                                 EXIT_EXTRACTION_ERROR, EXIT_TRANSFORM_ERROR,
                                                 EXIT_LOAD_ERROR}

(***************************************************************************)
(* C5: when a run has ended, on success or on any failure, the local file  *)
(* save_to_csv wrote for it no longer exists, unless the attempt to remove *)
(* it failed.                                                              *)
(***************************************************************************)
RemovalFailed(r) ==
    \E i \in DOMAIN trace[r] :
        trace[r][i].op = "upload_to_gcs" /\ trace[r][i].exc = "none" /\ trace[r][i].env = "fault"

C5_ArtifactRemovedAtExit ==
    \A r \in Runs :
        (pc[r] = "done" /\ csv_path[r] # None /\ ~RemovalFailed(r)) =>
            csv_path[r][1] \notin DOMAIN files

(***************************************************************************)
(* C6: two runs with different run timestamps never use the same local     *)
(* artifact path, and what each has staged is the batch it transformed.    *)
(***************************************************************************)
C6_NoSharedArtifactPath ==
    \A r1, r2 \in Runs :
        (r1 # r2 /\ run_timestamp[r1] # "" /\ run_timestamp[r2] # ""
            /\ run_timestamp[r1] # run_timestamp[r2]) =>
            /\ (csv_path[r1] # None /\ csv_path[r2] # None) => csv_path[r1] # csv_path[r2]
            /\ gcs_uri[r1] # None => store[gcs_uri[r1][1]].by = r1

(***************************************************************************)
(* C7: in the load phase the backup comes first, then the staging, then    *)
(* load_to_bigquery with the staged location: staging is attempted only    *)
(* after a successful backup, the load only after a successful staging     *)
(* whose location it is given, and every job submitted names a location    *)
(* staged by a run whose backup succeeded.                                 *)
(***************************************************************************)
C7_BackupThenStageThenLoad ==
    \A r \in Runs :
        /\ \A i \in DOMAIN trace[r] :
              /\ trace[r][i].op = "upload_to_gcs" =>
                    /\ i > 1
                    /\ trace[r][i - 1].op = "upload_backup_to_gcs"
                    /\ trace[r][i - 1].exc = "none"
                    /\ BackupUri(r) \in DOMAIN store
              /\ trace[r][i].op = "load_to_bigquery" =>
                    /\ i > 2
                    /\ trace[r][i - 1].op = "upload_to_gcs"
                    /\ trace[r][i - 1].exc = "none"
                    /\ trace[r][i - 2].op = "upload_backup_to_gcs"
                    /\ gcs_uri[r] = Some(StagedUri(r))
                    /\ StagedUri(r) \in DOMAIN store
        /\ Failed(r, "upload_backup_to_gcs") => (~Called(r, "upload_to_gcs") /\ gcs_uri[r] = None)
        /\ gcs_uri[r] # None => Succeeded(r, "upload_backup_to_gcs")
        /\ \A k \in DOMAIN submitted :
              \E q \in Runs : /\ gcs_uri[q] = Some(submitted[k].uri)
                              /\ Succeeded(q, "upload_backup_to_gcs")
                              /\ Succeeded(q, "upload_to_gcs")

C7_Witness ==
    \E r \in Runs :
        /\ Called(r, "load_to_bigquery")
        /\ Succeeded(r, "upload_backup_to_gcs")
        /\ Succeeded(r, "upload_to_gcs")
        /\ \E q \in Runs : Failed(q, "upload_backup_to_gcs")

(***************************************************************************)
(* C8: once the Warehouse has taken the load of a run, a failing           *)
(* verification query is only a warning and the run ends with              *)
(* EXIT_SUCCESS.                                                           *)
(***************************************************************************)
WarehouseTookLoad(r) ==
    \E i \in DOMAIN trace[r] : trace[r][i].op = "load_to_bigquery" /\ trace[r][i].env = "ok"

C9_TimestampNamesArtifacts ==
    \A r \in Runs :
        /\ csv_path[r] # None => csv_path[r][1] = ExpectedCsvPath(r)
        /\ Succeeded(r, "upload_backup_to_gcs") => BackupUri(r) \in DOMAIN store
        /\ gcs_uri[r] # None => gcs_uri[r][1] = StagedUri(r)

(***************************************************************************)
(* C10: save_to_csv(df, dir, ts) writes the batch to                       *)
(* dir/traffic_data_<ts>.csv and returns that path.                        *)
(***************************************************************************)
C10_SaveToCsvWritesTimestampedFile ==
    \A r \in Runs :
        pc[r] = "upload_backup_to_gcs" =>
            /\ csv_path[r] = Some(ExpectedCsvPath(r))
            /\ \E p \in DOMAIN files :
                  /\ p = ExpectedCsvPath(r)
                  /\ files[p].kind = "csv"
                  /\ files[p].table = df[r][1]

(***************************************************************************)
(* C12: a run in which a call raised TransformationError has ended with    *)
(* EXIT_TRANSFORM_ERROR; save_to_csv, the backup, the staging and the load *)
(* were never called in it, and no file and no blob holds its batch.       *)
(***************************************************************************)
TransformationFailed(r) ==
    \E i \in DOMAIN trace[r] : trace[r][i].exc = "TransformationError"

C12_FailedTransformLeavesNoOutput ==
    \A r \in Runs :
        TransformationFailed(r) =>
            /\ pc[r] = "done"
            /\ outcome[r] = Returned(EXIT_TRANSFORM_ERROR)
            /\ \A op \in {"save_to_csv", "upload_backup_to_gcs", "upload_to_gcs",
                           "load_to_bigquery"} : ~Called(r, op)
            /\ csv_path[r] = None
            /\ gcs_uri[r] = None
            /\ rows_loaded[r] = 0
            /\ \A p \in DOMAIN files : files[p].by # r
            /\ \A u \in DOMAIN store : store[u].by # r

C12_Witness ==
    \A r \in Runs :
        /\ pc[r] = "done"
        /\ Last(r).op = "transform"
        /\ TransformationFailed(r)

(***************************************************************************)
(* C11: after extract_from_gcs, however it ended, the temporary local copy *)
(* it created no longer exists, unless deleting it failed; and a failed    *)
(* deletion leaves the call's result what it is without that failure.      *)
(***************************************************************************)
C11_TemporaryCopyDeleted ==
    direct.op = "extract_from_gcs" =>
        LET i == direct.in[1]
            o == direct.out[1]
            undisturbed == extract_from_gcs(BUCKET, i.source_blob_path, i.files, store, "none")
        IN  /\ (o.temp # None /\ i.fault # "unlink") => o.temp[1] \notin DOMAIN files
            /\ i.fault = "unlink" => (o.res = undisturbed.res /\ o.df = undisturbed.df)

(***************************************************************************)
(* C13: when the same staged artifact has been loaded one or more times    *)
(* with no fault from the Warehouse, every call submitted a job, with      *)
(* WRITE_APPEND when the write-mode is append and WRITE_TRUNCATE when it   *)
(* is truncate; in truncate mode the table holds exactly the artifact's    *)
(* rows, in append mode the rows it held plus those of every load.         *)
(***************************************************************************)
C13_TruncateIdempotentAppendAdds ==
    (direct.op = "load_to_bigquery" /\ \A k \in DOMAIN direct.in : direct.in[k].fault = "none") =>
        LET n == Len(direct.in)
            first == direct.in[1]
            mode == first.config.write_disposition
            rows == Len(store[first.gcs_uri].table.rows)
        IN  /\ Len(submitted) = n
            /\ \A k \in DOMAIN submitted :
                  /\ (submitted[k].disposition = "WRITE_APPEND") <=> (mode = "append")
                  /\ (submitted[k].disposition = "WRITE_TRUNCATE") <=> (mode = "truncate")
            /\ \A k \in DOMAIN direct.out : direct.out[k].rows = rows
            /\ mode = "truncate" => Len(warehouse) = rows
            /\ mode = "append" => Len(warehouse) = Len(first.tbl) + n * rows

(***************************************************************************)
(* C14: in the configuration phase the object load_config returned is left *)
(* as it was returned; with --truncate the Config used afterwards has      *)
(* write-mode truncate and every other field equal to the loaded one's,    *)
(* without the flag it is the loaded Config, write-mode included.          *)
(***************************************************************************)
C14_TruncateFlagMakesNewConfig ==
    (direct.op = "config_phase" /\ direct.out[1].res = Ok) =>
        LET i == direct.in[1]
            o == direct.out[1]
            loaded == o.returned[1]
            used == o.config[1]
        IN  /\ o.loaded = o.returned
            /\ DOMAIN used = DOMAIN loaded
            /\ i.truncate =>
                  /\ used.write_disposition = "truncate"
                  /\ \A f \in (DOMAIN loaded) \ {"write_disposition"} : used[f] = loaded[f]
            /\ ~i.truncate =>
                  /\ used = loaded
                  /\ WriteDisposition(used) = WriteDisposition(loaded)

C14_Witness ==
    /\ direct.op = "config_phase"
    /\ direct.out[1].res = Ok
    /\ direct.in[1].truncate
    /\ direct.out[1].returned[1].write_disposition = "append"
    /\ direct.out[1].config[1].write_disposition = "truncate"

(***************************************************************************)
(* C15: when any required variable is unset or empty, load_config raises   *)
(* one ConfigError that names every such variable, and returns no Config.  *)
(***************************************************************************)
C15_AllMissingReportedTogether ==
    direct.op = "load_config" =>
        LET i == direct.in[1]
            o == direct.out[1]
            unset == {var \in Range(required_vars) : Unset(i.env, i.cred, var)}
        IN  /\ unset # {} =>
                  /\ o.res.exc = "ConfigError"
                  /\ o.config = None
                  /\ Range(o.missing) = unset
                  /\ Len(o.missing) = Cardinality(unset)
            /\ unset = {} => o.missing = <<>>

C15_Witness ==
    /\ direct.op = "load_config"
    /\ direct.out[1].res.exc = "ConfigError"
    /\ Len(direct.out[1].missing) >= 3
    /\ Unset(direct.in[1].env, direct.in[1].cred, "GOOGLE_APPLICATION_CREDENTIALS")

(***************************************************************************)
(* C16: a load_config call that gets as far as the write-mode yields       *)
(* append when BQ_WRITE_DISPOSITION is unset, append or truncate when the  *)
(* variable spells that word in any case, and ConfigError for every other  *)
(* value; every Config returned has write-mode append or truncate.         *)
(***************************************************************************)
AppendSpellings == {"append", "Append"}
TruncateSpellings == {"truncate", "TRUNCATE"}

C16_WriteModeAppendOrTruncate ==
    direct.op = "load_config" =>
        LET i == direct.in[1]
            o == direct.out[1]
            wd == i.env.BQ_WRITE_DISPOSITION
            reached == /\ \A var \in Range(required_vars) : ~Unset(i.env, i.cred, var)
                       /\ i.env.LOCAL_XLS_PATH \in DOMAIN files
                       /\ i.cred.path \in DOMAIN files
        IN  /\ o.res = Ok => o.config[1].write_disposition \in {"append", "truncate"}
            /\ reached =>
                  /\ wd = None => (o.res = Ok /\ o.config[1].write_disposition = "append")
                  /\ (wd # None /\ wd[1] \in AppendSpellings) =>
                        (o.res = Ok /\ o.config[1].write_disposition = "append")
                  /\ (wd # None /\ wd[1] \in TruncateSpellings) =>
                        (o.res = Ok /\ o.config[1].write_disposition = "truncate")
                  /\ (wd # None /\ wd[1] \notin AppendSpellings \cup TruncateSpellings) =>
                        (o.res.exc = "ConfigError" /\ o.config = None)

C16_Witness ==
    /\ direct.op = "load_config"
    /\ direct.in[1].env.BQ_WRITE_DISPOSITION = Some("TRUNCATE")
    /\ direct.out[1].res = Ok
    /\ direct.out[1].config[1].write_disposition = "truncate"

(***************************************************************************)
(* C17: extract_from_xls returns the decoded batch when the source decodes *)
(* to a table with a time and a traffic column (in any case) and at least  *)
(* one row; in every other case it raises ExtractionError and returns no   *)
(* batch; so a batch returned is non-empty and has both columns.           *)
(***************************************************************************)
TimeSpellings == {"time", "Time", "TIME"}
TrafficSpellings == {"traffic", "Traffic"}

C17_ExtractReturnsOnlyUsableBatch ==
    direct.op = "extract_from_xls" =>
        LET p == direct.in[1].file_path
            o == direct.out[1]
            usable == /\ p \in DOMAIN files
                      /\ files[p].kind = "xls"
                      /\ Range(files[p].table.cols) \cap TimeSpellings # {}
                      /\ Range(files[p].table.cols) \cap TrafficSpellings # {}
                      /\ Len(files[p].table.rows) >= 1
        IN  /\ usable => (o.res = Ok /\ o.df = Some(files[p].table))
            /\ ~usable => (o.res.exc = "ExtractionError" /\ o.df = None)
            /\ o.df # None =>
                  /\ Len(o.df[1].rows) >= 1
                  /\ Range(o.df[1].cols) \cap TimeSpellings # {}
                  /\ Range(o.df[1].cols) \cap TrafficSpellings # {}

(***************************************************************************)
(* C18: when transform returns, its result has exactly the columns time,   *)
(* traffic, created_at, in that order, one value of each per input row,    *)
(* whatever extra or differently-cased columns the input had.              *)
(***************************************************************************)
C18_OutputHasExactlyThreeColumns ==
    (direct.op = "transform" /\ direct.out[1].res = Ok) =>
        LET given == direct.in[1].df
            result == direct.out[1].df[1]
        IN  /\ result.cols = <<"time", "traffic", "created_at">>
            /\ Len(result.rows) = Len(given.rows)
            /\ \A r \in DOMAIN result.rows : Len(result.rows[r]) = 3

C18_Witness ==
    /\ direct.op = "transform"
    /\ direct.out[1].res = Ok
    /\ direct.in[1].df.cols = <<"Time", "Traffic", "Note">>

(***************************************************************************)
(* C19: after transform has returned or raised, the batch it was given has *)
(* the column names and the values it had before the call.                 *)
(***************************************************************************)
C19_TransformLeavesInputUnchanged ==
    direct.op = "transform" =>
        /\ direct.out[1].arg.cols = direct.in[1].df.cols
        /\ direct.out[1].arg.rows = direct.in[1].df.rows

(***************************************************************************)
(* C20: parse_time_column and add_created_at leave the batch they are      *)
(* given as it was (its time values are the original ones, it has no       *)
(* created_at column) and return another batch, with the time values in    *)
(* canonical form, or with the created_at column.                          *)
(***************************************************************************)
C20_StepsLeaveInputUnchanged ==
    /\ direct.op = "parse_time_column" =>
          LET given == direct.in[1].df
              o == direct.out[1]
          IN  /\ o.arg = given
              /\ HasCol(given, "time") => Column(o.arg, "time") = Column(given, "time")
              /\ o.res = Ok =>
                    \A r \in DOMAIN o.df[1].rows : Column(o.df[1], "time")[r].t = "iso"
    /\ direct.op = "add_created_at" =>
          LET given == direct.in[1].df
              o == direct.out[1]
          IN  /\ o.arg = given
              /\ ~HasCol(o.arg, "created_at")
              /\ HasCol(o.df[1], "created_at")

C20_Witness ==
    /\ direct.op = "parse_time_column"
    /\ direct.out[1].res = Ok
    /\ direct.out[1].df[1] # direct.in[1].df
    /\ \E r \in DOMAIN direct.in[1].df.rows : Column(direct.in[1].df, "time")[r].t = "dmy"

(***************************************************************************)
(* C21: validate_data raises TransformationError and returns no batch when *)
(* time, traffic or created_at is not a column of the batch, or when a row *)
(* has a null time or a null traffic, whatever the other columns hold;     *)
(* when it returns, it returns the batch it was given, unchanged.          *)
(***************************************************************************)
C21_ValidateRejectsMissingOrNull ==
    direct.op = "validate_data" =>
        LET given == direct.in[1].df
            o == direct.out[1]
            absent == {"time", "traffic", "created_at"} \ Range(given.cols)
            nulls == /\ absent = {}
                     /\ \E r \in DOMAIN given.rows :
                           \/ Column(given, "time")[r].t = "null"
                           \/ Column(given, "traffic")[r].t = "null"
        IN  /\ (absent # {} \/ nulls) => (o.res.exc = "TransformationError" /\ o.df = None)
            /\ o.res = Ok => (o.df = Some(given) /\ o.arg = given)

C21_Witness ==
    /\ direct.op = "validate_data"
    /\ direct.out[1].res.exc = "TransformationError"
    /\ Range(direct.in[1].df.cols) = {"time", "traffic", "created_at"}
    /\ \E r \in DOMAIN direct.in[1].df.rows :
          /\ Column(direct.in[1].df, "traffic")[r].t = "null"
          /\ Column(direct.in[1].df, "time")[r].t = "dt"

(***************************************************************************)
(* C22: the batch add_created_at returns has, in every row, the same       *)
(* created_at value: the one reading of the clock made by the call, in     *)
(* whole seconds; and it has as many rows as the batch given.              *)
(***************************************************************************)
C22_CreatedAtSameForEveryRow ==
    direct.op = "add_created_at" =>
        LET given == direct.in[1].df
            result == direct.out[1].df[1]
            reading == Cell("iso", direct.in[1].now \div TicksPerSecond)
        IN  /\ Len(result.rows) = Len(given.rows)
            /\ HasCol(result, "created_at")
            /\ \A r \in DOMAIN result.rows : Column(result, "created_at")[r] = reading
            /\ \A r1, r2 \in DOMAIN result.rows :
                  Column(result, "created_at")[r1] = Column(result, "created_at")[r2]

C22_Witness ==
    /\ direct.op = "add_created_at"
    /\ Len(direct.out[1].df[1].rows) >= 2
    /\ direct.in[1].now > 0

(***************************************************************************)
(* C23: a run whose batch has a negative traffic value and is otherwise    *)
(* valid does not fail for it: transform succeeds, save_to_csv fails only  *)
(* when the filesystem fails it, and the batch the run stages still holds  *)
(* the negative value.  (The calls of the load phase do not read the       *)
(* batch's values.)                                                        *)
(***************************************************************************)
Lowered(t) == [t EXCEPT !.cols = [i \in DOMAIN t.cols |-> Lower(t.cols[i])]]

NegativeOtherwiseValid(t) ==
    /\ HasCol(t, "time")
    /\ HasCol(t, "traffic")
    /\ Len(t.rows) >= 1
    /\ \A r \in DOMAIN t.rows :
          /\ Column(t, "time")[r].t \in {"dmy", "dt", "iso"}
          /\ Column(t, "traffic")[r].t = "num"
    /\ \E r \in DOMAIN t.rows : Column(t, "traffic")[r].v < 0

C23_NegativeTrafficDoesNotFail ==
    \A r \in Runs :
        (df[r] # None /\ NegativeOtherwiseValid(Lowered(df[r][1]))) =>
            /\ Called(r, "transform") => Succeeded(r, "transform")
            /\ \A i \in DOMAIN trace[r] :
                  (trace[r][i].op \in {"transform", "save_to_csv"} /\ trace[r][i].env = "ok") =>
                      trace[r][i].exc = "none"
            /\ csv_path[r] # None => Succeeded(r, "save_to_csv")
            /\ gcs_uri[r] # None =>
                  NegativeOtherwiseValid(store[gcs_uri[r][1]].table)

C23_Witness ==
    \E r \in Runs :
        /\ df[r] # None
        /\ NegativeOtherwiseValid(df[r][1])
        /\ gcs_uri[r] # None
        /\ Called(r, "load_to_bigquery")
        /\ HasCol(store[gcs_uri[r][1]].table, "created_at")

(***************************************************************************)
(* C24: transform ends as the chain lower-case the column names, normalise *)
(* time, stamp created_at, validate, project ends: with the error of the   *)
(* time normalisation when that step fails (nothing is stamped and no      *)
(* batch is returned, whatever the validation would have said), else with  *)
(* the error of the validation when that fails, else with the validated    *)
(* batch projected to time, traffic, created_at.                           *)
(***************************************************************************)
C24_StepsInOrderFirstFailureWins ==
    direct.op = "transform" =>
        LET given == direct.in[1].df
            o == direct.out[1]
            normalised == parse_time_column(Lowered(given))
            stamped == add_created_at(normalised.df[1], direct.in[1].now)
            validated == validate_data(stamped)
        IN  /\ normalised.res # Ok =>
                  /\ o.res = normalised.res
                  /\ o.df = None
                  /\ ~HasCol(o.arg, "created_at")
            /\ (normalised.res = Ok /\ validated.res # Ok) =>
                  (o.res = validated.res /\ o.df = None)
            /\ (normalised.res = Ok /\ validated.res = Ok) =>
                  /\ o.res = Ok
                  /\ o.df = Some(Project(validated.df[1], <<"time", "traffic", "created_at">>))
            /\ o.res # Ok => o.res.exc = "TransformationError"

C24_Witness ==
    /\ direct.op = "transform"
    /\ direct.out[1].res = Raise("TransformationError", "Failed to parse time column")
    /\ \E r \in DOMAIN direct.in[1].df.rows :
          Column(Lowered(direct.in[1].df), "traffic")[r].t = "null"

(***************************************************************************)
(* C25: every load_to_bigquery call the Warehouse rejects ends in          *)
(* LoadError, and the error says which: the dataset is missing, permission *)
(* is denied, or the schema does not match, each when the Warehouse        *)
(* rejects the job for that reason.                                        *)
(***************************************************************************)
C25_LoadErrorsDistinguished ==
    direct.op = "load_to_bigquery" =>
        \A k \in DOMAIN direct.in :
            LET fault == direct.in[k].fault
                res == direct.out[k].res
            IN  /\ fault # "none" => res.exc = "LoadError"
                /\ fault = "notfound_dataset" => res.detail = "BigQuery dataset not found"
                /\ fault = "forbidden" => res.detail = "Permission denied accessing BigQuery"
                /\ fault = "schema" => res.detail = "Schema mismatch loading to BigQuery"

(***************************************************************************)
(* C26: when upload_to_gcs raises, it has removed no file and returns no   *)
(* location; when the upload succeeded the blob is in the Blob Store and   *)
(* the staged location is returned, also when removing the local file      *)
(* failed (the file is then still there); a missing bucket and a denied    *)
(* permission end in LoadError.                                            *)
(***************************************************************************)
C26_DeleteOnlyAfterUpload ==
    direct.op = "upload_to_gcs" =>
        LET i == direct.in[1]
            o == direct.out[1]
            staged == GcsUri(BUCKET, csv_blob_name("1"))
        IN  /\ o.res # Ok => (files = i.files /\ store = i.store /\ o.uri = None)
            /\ o.res = Ok =>
                  /\ o.uri = Some(staged)
                  /\ staged \in DOMAIN store
                  /\ store[staged] = i.files[i.local_path]
                  /\ (i.local_path \in DOMAIN files) <=> (i.fault = "unlink")
            /\ (i.fault = "unlink" /\ i.local_path \in DOMAIN i.files) => o.res = Ok
            /\ i.fault \in {"reload_notfound", "reload_forbidden", "upload_forbidden"} =>
                  o.res.exc = "LoadError"

C26_Witness ==
    /\ direct.op = "upload_to_gcs"
    /\ direct.in[1].fault = "unlink"
    /\ direct.out[1].res = Ok
    /\ direct.in[1].local_path \in DOMAIN files

(***************************************************************************)
(* C29: a load_config call that raised ConfigError has left                *)
(* GOOGLE_APPLICATION_CREDENTIALS as it found it; only a call that         *)
(* returned a Config has set it to the absolute path.                      *)
(***************************************************************************)
C29_CredentialsRewrittenOnlyOnSuccess ==
    direct.op = "load_config" =>
        LET i == direct.in[1]
            o == direct.out[1]
        IN  /\ o.res.exc = "ConfigError" => environ[1] = i.cred
            /\ environ[1] # i.cred => (o.res = Ok /\ o.config # None)
            /\ o.res = Ok => environ[1] = Cred(TRUE, i.cred.path)

(***************************************************************************)
(* C30: verify_bigquery_load returns TRUE whenever the Warehouse answers   *)
(* the count query, FALSE only when the client or the query fails, and     *)
(* the same for every expected_rows.                                       *)
(***************************************************************************)
C30_VerifyIgnoresExpectedRows ==
    direct.op = "verify_bigquery_load" =>
        LET i == direct.in[1]
            o == direct.out[1]
        IN  /\ i.fault = "none" => o.result = TRUE
            /\ o.result = FALSE => i.fault \in {"client", "query"}
            /\ \A expected_rows \in 0..3 :
                  verify_bigquery_load(i.config, expected_rows, warehouse, i.fault) = o.result

(***************************************************************************)
(* C27: the backup stored for a run whose backup step succeeded holds the  *)
(* content the run extracted and transformed: its time and traffic values  *)
(* are those of the run's batch, also when the source file was replaced    *)
(* between the run's extraction and its backup.                            *)
(***************************************************************************)
Canonical(t) ==
    LET normalised == parse_time_column(Lowered(t))
    IN  IF normalised.res = Ok /\ HasCol(Lowered(t), "traffic")
        THEN Some(Project(normalised.df[1], <<"time", "traffic">>))
        ELSE None

C27_BackupHoldsExtractedContent ==
    \A r \in Runs :
        Succeeded(r, "upload_backup_to_gcs") =>
            /\ BackupUri(r) \in DOMAIN store
            /\ Canonical(store[BackupUri(r)].table) =
                   Some(Project(df[r][1], <<"time", "traffic">>))

(***************************************************************************)
(* C28: a run whose load_to_bigquery call failed, after its backup and its *)
(* staging succeeded, has ended with EXIT_LOAD_ERROR, and its backup and   *)
(* its staged artifact are still in the Blob Store.                        *)
(***************************************************************************)
C28_NoRollbackAfterFailedLoad ==
    \A r \in Runs :
        Failed(r, "load_to_bigquery") =>
            /\ pc[r] = "done"
            /\ outcome[r] = Returned(EXIT_LOAD_ERROR)
            /\ Succeeded(r, "upload_backup_to_gcs")
            /\ Succeeded(r, "upload_to_gcs")
            /\ BackupUri(r) \in DOMAIN store
            /\ store[BackupUri(r)].kind = "xls"
            /\ StagedUri(r) \in DOMAIN store
            /\ store[StagedUri(r)].kind = "csv"

C28_Witness ==
    \E r \in Runs :
        /\ Failed(r, "load_to_bigquery")
        /\ Last(r).env = "fault"
        /\ \A q \in Runs : pc[q] = "done"

====
